---- MODULE Spec2Model ----
(***************************************************************************)
(* Model of the PocketIDClient reconciler (Pepr capability).               *)
(*                                                                         *)
(* One PocketIDClient custom resource lives in the cluster.  The Watch     *)
(* callback is delivered snapshots of it; every `await` of the callback is *)
(* one step of the model: the awaited call completes (with success or      *)
(* failure, chosen by the environment) and the callback runs on up to the  *)
(* next call it issues.  Per resource the dispatcher delivers one event at *)
(* a time (the callback of the previous event has returned or thrown).  An *)
(* event carries the object as it was when the event was emitted: the      *)
(* event of a spec edit made while the callback runs waits for the         *)
(* callback to return and is then delivered with that earlier status.      *)
(*                                                                         *)
(* A status object is a function whose DOMAIN is the set of keys that are  *)
(* present, so that the JavaScript spread and the JSON merge patch of the  *)
(* status subresource are both function override (@@).                     *)
(***************************************************************************)
EXTENDS Integers, Sequences, FiniteSets, TLC

VARIABLES
    lastGenByUid,   \* the in-memory Map uid -> generation of the process
    cr,             \* the PocketIDClient object stored in the cluster
    external,       \* ids of the OIDC clients that exist in PocketID
    secrets,        \* the Secrets of the namespace: name -> content
    h,              \* the Watch callback invocation: position and locals
    outcome,        \* what the Watch callback did with the latest event
    faults,         \* failures of remote calls the environment has injected
    sideEffects,    \* generation -> upsert sequences begun by this process
    render,         \* a call of renderTemplate: its arguments and its result
    pending         \* the object carried by the event waiting for the callback

vars ==
    <<lastGenByUid, cr, external, secrets, h, outcome, faults, sideEffects,
      render, pending>>

----------------------------------------------------------------------------
(* Bounds of the model *)

MaxGen == 2
MaxFaults == 2
MaxTemplateLen == 2

----------------------------------------------------------------------------
(* Program constants *)

FINALIZER == "pocketidclient.jeffrescignano.io/finalizer"
baseDelayMs == 5000
maxDelayMs == 300000
maxRetries == 10
jitterRangeMs == 1000

(* Math.random() * 1000 lies in [0, 1000): its two extremes, in whole      *)
(* milliseconds.                                                           *)
Jitters == {0, jitterRangeMs - 1}

(* Timestamps are kept in milliseconds relative to the current instant:    *)
(* Date.now() is the origin, and the passing of time moves every stored    *)
(* timestamp towards the past (Tick).                                      *)
now == 0

(* The resource the events are about *)
UID == "uid-1"
NAME == "my-app"

Empty == [k \in {} |-> 0]

Get(f, k, d) == IF k \in DOMAIN f THEN f[k] ELSE d

Without(f, keys) == [k \in DOMAIN f \ keys |-> f[k]]

Min(a, b) == IF a < b THEN a ELSE b

RECURSIVE Pow2(_)
Pow2(n) == IF n <= 0 THEN 1 ELSE 2 * Pow2(n - 1)

(* The specs a user may declare: spec.name is required by the reconciler,  *)
(* spec.id and spec.secretTemplate.name are optional overrides.            *)
Specs ==
    { [name |-> "My App"],
      Empty,
      [name |-> "My App", id |-> "custom-id",
       secretTemplate |-> [name |-> "custom-secret"]] }

----------------------------------------------------------------------------
(* Pure helpers of the reconciler *)

calculateBackoffDelayUncapped(retryAttempt, jitter) ==
    baseDelayMs * Pow2(retryAttempt - 1) + jitter

calculateBackoffDelay(retryAttempt, jitter) ==
    LET exponentialDelay == baseDelayMs * Pow2(retryAttempt - 1)
    IN  Min(exponentialDelay + jitter, maxDelayMs)

shouldSkipDueToBackoff(client) ==
    IF \/ "nextRetryTime" \notin DOMAIN client.status
       \/ Get(client.status, "phase", "") = "Ready"
    THEN FALSE
    ELSE now < client.status.nextRetryTime

createCondition(type, status, reason) ==
    [type |-> type, status |-> status, reason |-> reason]

UpsertConditionPush(conditions, condition) == Append(conditions, condition)

(* conditions.findIndex + replace in place, or push *)
UpsertCondition(conditions, condition) ==
    LET hits == {i \in DOMAIN conditions : conditions[i].type = condition.type}
    IN  IF hits # {}
        THEN LET idx == CHOOSE i \in hits : \A j \in hits : i <= j
             IN  [conditions EXCEPT ![idx] = condition]
        ELSE Append(conditions, condition)

(* The list addCondition sends: client.status?.conditions ?? [] after the  *)
(* replace-or-push.                                                        *)
addConditionList(client, condition) ==
    UpsertCondition(Get(client.status, "conditions", <<>>), condition)

(* addCondition mutates the array of the snapshot in place when the        *)
(* snapshot has one; a fresh [] is not stored back into the snapshot.      *)
addConditionClient(client, condition) ==
    IF "conditions" \in DOMAIN client.status
    THEN [client EXCEPT !.status =
              [conditions |-> addConditionList(client, condition)] @@ client.status]
    ELSE client

updateStatusBodySpreadReversed(client, status, undefinedKeys) ==
    Without([observedGeneration |-> client.generation] @@ client.status @@ status,
            undefinedKeys)

(* The body updateStatus sends: {...currentStatus, ...status,              *)
(* observedGeneration}; a key whose value is undefined is not serialized.  *)
updateStatusBody(client, status, undefinedKeys) ==
    Without([observedGeneration |-> client.generation] @@ status @@ client.status,
            undefinedKeys)

PatchStatusReplace(object, body) == [object EXCEPT !.status = body]

(* PATCH of the status subresource with a JSON merge patch *)
PatchStatus(object, body) == [object EXCEPT !.status = body @@ object.status]

clientIdOf(client) ==
    IF "id" \in DOMAIN client.spec THEN client.spec.id ELSE client.name

defaultSecretName(client) == client.name \o "-credentials"

secretNameOf(client) ==
    IF "secretTemplate" \in DOMAIN client.spec
    THEN client.spec.secretTemplate.name
    ELSE defaultSecretName(client)

(* handleDeletion: status.clientId || spec.id || name *)
deletionClientId(client) ==
    IF "clientId" \in DOMAIN client.status
    THEN client.status.clientId
    ELSE clientIdOf(client)

(* handleDeletion: status.secretName || `${name}-credentials` *)
deletionSecretName(client) ==
    IF "secretName" \in DOMAIN client.status
    THEN client.status.secretName
    ELSE defaultSecretName(client)

----------------------------------------------------------------------------
(* The gates an event passes before an attempt is begun *)

IsStatusOnlyUpdate(client) ==
    /\ client.uid \in DOMAIN lastGenByUid
    /\ lastGenByUid[client.uid] = client.generation

AlreadyReconciledOtherGeneration(client) ==
    /\ Get(client.status, "observedGeneration", 0) # client.generation
    /\ Get(client.status, "phase", "") = "Ready"

AlreadyReconciled(client) ==
    /\ Get(client.status, "observedGeneration", 0) = client.generation
    /\ Get(client.status, "phase", "") = "Ready"

InBackoffAnyGeneration(client) == shouldSkipDueToBackoff(client)

InBackoff(client) ==
    /\ shouldSkipDueToBackoff(client)
    /\ Get(client.status, "observedGeneration", 0) = client.generation

currentRetryOf(client) == Get(client.status, "retryAttempt", 0)

MaxRetriesReached(client) == currentRetryOf(client) >= maxRetries

----------------------------------------------------------------------------
(* renderTemplate.  A string is a sequence of tokens: a token is a run of  *)
(* plain text, the text of a placeholder, or a replacement pattern of      *)
(* String.prototype.replace.                                               *)

(* The fields of TemplateContext, in the order of the replace calls *)
Fields == <<"ClientID", "ClientSecret", "ClientName", "Namespace", "ResourceName">>

(* The texts /\{\{\s*\.Field\s*\}\}/ matches *)
Placeholders(field) == {"{{ ." \o field \o " }}", "{{." \o field \o "}}"}

(* What replace inserts for a match: the replacement string, in which $&   *)
(* stands for the matched text and $$ for a dollar sign.                   *)
Replacement(value, matched) ==
    [i \in DOMAIN value |->
        CASE value[i] = "$&" -> matched
          [] value[i] = "$$" -> "$"
          [] OTHER -> value[i]]

RECURSIVE replace(_, _, _)
(* string.replace(/\{\{\s*\.Field\s*\}\}/g, value) *)
replace(string, field, value) ==
    IF string = <<>> THEN <<>>
    ELSE (IF Head(string) \in Placeholders(field)
          THEN Replacement(value, Head(string))
          ELSE <<Head(string)>>)
         \o replace(Tail(string), field, value)

renderTemplate(template, ctx) ==
    LET r1 == replace(template, Fields[1], ctx[Fields[1]])
        r2 == replace(r1, Fields[2], ctx[Fields[2]])
        r3 == replace(r2, Fields[3], ctx[Fields[3]])
        r4 == replace(r3, Fields[4], ctx[Fields[4]])
    IN  replace(r4, Fields[5], ctx[Fields[5]])

(* The context upsertSecret builds for a resource whose spec.name is given *)
TemplateContext(clientName) ==
    [f \in {Fields[i] : i \in DOMAIN Fields} |->
        CASE f = "ClientID" -> <<NAME>>
          [] f = "ClientSecret" -> <<"s3cret">>
          [] f = "ClientName" -> clientName
          [] f = "Namespace" -> <<"default">>
          [] f = "ResourceName" -> <<NAME>>]

(* Display names a user may give: plain text, text that reads as a         *)
(* placeholder of a later or of an earlier field, text with a dollar       *)
(* pattern.                                                                *)
ClientNames ==
    {<<"My App">>, <<"{{ .Namespace }}">>, <<"{{ .ClientID }}">>, <<"$&">>}

TemplateTokens ==
    {"id=", "{{ .ClientID }}", "{{.ClientSecret}}", "{{ .ClientName }}",
     "{{ .Namespace }}", "{{ .ResourceName }}", "{{ .Foo }}"}

Templates == UNION {[1..n -> TemplateTokens] : n \in 1..MaxTemplateLen}

NotRendered == <<"(not rendered)">>

NoRender == [template |-> <<>>, context |-> TemplateContext(<<>>),
             rendered |-> NotRendered]

----------------------------------------------------------------------------
(* State *)

SnapshotOf(object) ==
    [uid |-> UID, name |-> NAME,
     generation |-> object.generation,
     deletionTimestamp |-> object.deletionTimestamp,
     finalizers |-> object.finalizers,
     spec |-> object.spec,
     status |-> object.status]

Snapshot == SnapshotOf(cr)

NoClient ==
    [uid |-> UID, name |-> NAME, generation |-> 0, deletionTimestamp |-> FALSE,
     finalizers |-> {}, spec |-> Empty, status |-> Empty]

(* No event is waiting *)
NoEvent == NoClient

(* The object the next event carries: the one of the waiting event, which  *)
(* is the object as it was when the event was emitted, or else the object  *)
(* as it is now.                                                           *)
Event == IF pending = NoEvent THEN Snapshot ELSE pending

Idle ==
    [pc |-> "idle", client |-> NoClient, exists |-> FALSE,
     retryAttempt |-> 0, nextRetryTime |-> 0, log |-> <<>>]

Returned == h.pc = "idle"

Init ==
    /\ lastGenByUid = Empty
    /\ \E s \in Specs :
          cr = [live |-> TRUE, generation |-> 1, deletionTimestamp |-> FALSE,
                finalizers |-> {}, spec |-> s, status |-> Empty]
    /\ external = {}
    /\ secrets = Empty
    /\ h = Idle
    /\ outcome = "none"
    /\ faults = 0
    /\ sideEffects = Empty
    /\ render = NoRender
    /\ pending = NoEvent

----------------------------------------------------------------------------
(* Building blocks of the steps *)

Log(op, ok) == Append(h.log, [op |-> op, ok |-> ok])

Begin(pc) == [Idle EXCEPT !.pc = pc, !.client = Event]

lastGenByUidNotSet(client) == lastGenByUid

(* lastGenByUid.set(uid, generation) *)
lastGenByUidSet(client) == (client.uid :> client.generation) @@ lastGenByUid

(* Entering the catch block of reconcile: the retry state is computed      *)
(* before the status write is issued.                                      *)
Catch(hh, jitter) ==
    LET retryAttempt == currentRetryOf(hh.client) + 1
        backoffDelay == calculateBackoffDelay(retryAttempt, jitter)
    IN  [hh EXCEPT !.pc = "fail_updateStatus",
                   !.retryAttempt = retryAttempt,
                   !.nextRetryTime = now + backoffDelay]

(* A remote call succeeds or fails as the environment decides; the model   *)
(* bounds the number of failures the environment injects.                  *)
Results == IF faults < MaxFaults THEN BOOLEAN ELSE {TRUE}

Charged(ok) == faults' = IF ok THEN faults ELSE faults + 1

(* The callback is over, by a return or by an exception that leaves it:    *)
(* its locals are gone, and how it ended is the outcome of the event.      *)
Ends(how) ==
    /\ h' = Idle
    /\ outcome' = how

Continues(hh) ==
    /\ h' = hh
    /\ outcome' = "none"

(* The status write of updateStatus: a failed PatchStatus is logged only *)
StatusWritten(body, ok) == IF ok /\ cr.live THEN PatchStatus(cr, body) ELSE cr

CountSequence(generation) ==
    (generation :> Min(Get(sideEffects, generation, 0) + 1, 2)) @@ sideEffects

----------------------------------------------------------------------------
(* The Watch callback, from the delivery of an event to its first await *)

Delivered == cr.live /\ Returned

WatchIgnored ==
    /\ Delivered
    /\ ~Event.deletionTimestamp
    /\ IsStatusOnlyUpdate(Event)
    /\ outcome' = "ignored"
    /\ pending' = NoEvent
    /\ UNCHANGED <<render, lastGenByUid, cr, external, secrets, h, faults, sideEffects>>

WatchDeletionLedger ==
    /\ Delivered
    /\ Event.deletionTimestamp
    /\ lastGenByUid' = lastGenByUidSet(Event)
    /\ h' = Begin("del_updateStatus")
    /\ outcome' = "deleting"
    /\ pending' = NoEvent
    /\ UNCHANGED <<render, cr, external, secrets, faults, sideEffects>>

WatchDeletion ==
    /\ Delivered
    /\ Event.deletionTimestamp
    /\ h' = Begin("del_updateStatus")
    /\ outcome' = "deleting"
    /\ pending' = NoEvent
    /\ UNCHANGED <<render, lastGenByUid, cr, external, secrets, faults, sideEffects>>

Accepted ==
    /\ Delivered
    /\ ~Event.deletionTimestamp
    /\ ~IsStatusOnlyUpdate(Event)

WatchAlreadyReconciled ==
    /\ Accepted
    /\ AlreadyReconciled(Event)
    /\ lastGenByUid' = lastGenByUidSet(Event)
    /\ outcome' = "satisfied"
    /\ pending' = NoEvent
    /\ UNCHANGED <<render, cr, external, secrets, h, faults, sideEffects>>

WatchBackoff ==
    /\ Accepted
    /\ ~AlreadyReconciled(Event)
    /\ InBackoff(Event)
    /\ lastGenByUid' = lastGenByUidSet(Event)
    /\ outcome' = "backoff"
    /\ pending' = NoEvent
    /\ UNCHANGED <<render, cr, external, secrets, h, faults, sideEffects>>

WatchMaxRetries ==
    /\ Accepted
    /\ ~AlreadyReconciled(Event)
    /\ ~InBackoff(Event)
    /\ MaxRetriesReached(Event)
    /\ lastGenByUid' = lastGenByUidSet(Event)
    /\ h' = Begin("max_addCondition")
    /\ outcome' = "maxRetries"
    /\ pending' = NoEvent
    /\ UNCHANGED <<render, cr, external, secrets, faults, sideEffects>>

WatchBeginAttempt ==
    /\ Accepted
    /\ ~AlreadyReconciled(Event)
    /\ ~InBackoff(Event)
    /\ ~MaxRetriesReached(Event)
    /\ lastGenByUid' = lastGenByUidSet(Event)
    /\ h' = Begin(IF FINALIZER \in Event.finalizers
                  THEN "begin_updateStatus" ELSE "addFinalizer")
    /\ outcome' = "started"
    /\ pending' = NoEvent
    /\ UNCHANGED <<render, cr, external, secrets, faults, sideEffects>>

----------------------------------------------------------------------------
(* reconcile: the upsert path, one step per awaited call *)

(* addFinalizer is called before the try block: a failed Apply leaves the  *)
(* callback as an exception.                                               *)
AddFinalizerSwallowed ==
    /\ h.pc = "addFinalizer"
    /\ \E ok \in Results :
          /\ Charged(ok)
          /\ cr' = IF ok /\ cr.live
                   THEN [cr EXCEPT !.finalizers =
                            h.client.finalizers \cup {FINALIZER}]
                   ELSE cr
          /\ Continues([h EXCEPT !.pc = "begin_updateStatus",
                                 !.log = Log("addFinalizer", ok /\ cr.live)])
    /\ UNCHANGED <<render, pending, lastGenByUid, external, secrets, sideEffects>>

AddFinalizer ==
    /\ h.pc = "addFinalizer"
    /\ \E ok \in Results :
          /\ Charged(ok)
          /\ IF ok /\ cr.live
             THEN /\ cr' = [cr EXCEPT !.finalizers =
                                h.client.finalizers \cup {FINALIZER}]
                  /\ Continues([h EXCEPT !.pc = "begin_updateStatus",
                                         !.log = Log("addFinalizer", TRUE)])
             ELSE /\ cr' = cr
                  /\ Ends("threw")
    /\ UNCHANGED <<render, pending, lastGenByUid, external, secrets, sideEffects>>

newPhaseOfRemoving(client) == "Removing"

newPhaseOf(client) == IF currentRetryOf(client) > 0 THEN "Retrying" ELSE "Pending"

BeginUpdateStatus ==
    /\ h.pc = "begin_updateStatus"
    /\ \E ok \in Results :
          LET body == updateStatusBody(h.client, [phase |-> newPhaseOf(h.client)],
                                       {"nextRetryTime"})
          IN  /\ Charged(ok)
              /\ cr' = StatusWritten(body, ok)
              /\ Continues([h EXCEPT !.pc = "begin_addCondition",
                                     !.log = Log("updateStatus", ok /\ cr.live)])
    /\ UNCHANGED <<render, pending, lastGenByUid, external, secrets, sideEffects>>

(* The addCondition before the try block, then the check of spec.name *)
BeginAddCondition ==
    /\ h.pc = "begin_addCondition"
    /\ \E ok \in Results, jitter \in Jitters :
          LET condition == createCondition("Reconciling", "True",
                               IF currentRetryOf(h.client) > 0
                               THEN "RetryStarted" ELSE "ReconcileStarted")
              body == [conditions |-> addConditionList(h.client, condition)]
              hh == [h EXCEPT !.client = addConditionClient(h.client, condition),
                              !.log = Log("addCondition", ok /\ cr.live)]
          IN  /\ Charged(ok)
              /\ IF ok /\ cr.live
                 THEN /\ cr' = PatchStatus(cr, body)
                      /\ Continues(IF "name" \in DOMAIN h.client.spec
                                   THEN [hh EXCEPT !.pc = "clientExists"]
                                   ELSE Catch(hh, jitter))
                 ELSE /\ cr' = cr
                      /\ Ends("threw")
    /\ UNCHANGED <<render, pending, lastGenByUid, external, secrets, sideEffects>>

ClientExistsNeverFound ==
    /\ h.pc = "clientExists"
    /\ \E ok \in Results :
          /\ Charged(ok)
          /\ Continues([h EXCEPT !.pc = "create",
                                 !.exists = FALSE,
                                 !.log = Log("clientExists", FALSE)])
    /\ sideEffects' = CountSequence(h.client.generation)
    /\ UNCHANGED <<render, pending, lastGenByUid, cr, external, secrets>>

ClientExists ==
    /\ h.pc = "clientExists"
    /\ \E ok \in Results :
          LET exists == ok /\ clientIdOf(h.client) \in external
          IN  /\ Charged(ok)
              /\ Continues([h EXCEPT !.pc = IF exists THEN "update" ELSE "create",
                                     !.exists = exists,
                                     !.log = Log("clientExists", exists)])
    /\ sideEffects' = CountSequence(h.client.generation)
    /\ UNCHANGED <<render, pending, lastGenByUid, cr, external, secrets>>

Update ==
    /\ h.pc = "update"
    /\ \E ok \in Results, jitter \in Jitters :
          LET done == ok /\ clientIdOf(h.client) \in external
              hh == [h EXCEPT !.log = Log("update", done)]
          IN  /\ Charged(ok)
              /\ Continues(IF done THEN [hh EXCEPT !.pc = "rotate"]
                           ELSE Catch(hh, jitter))
    /\ UNCHANGED <<render, pending, lastGenByUid, cr, external, secrets, sideEffects>>

(* PocketID rejects the creation of a client whose id is taken *)
Create ==
    /\ h.pc = "create"
    /\ \E ok \in Results, jitter \in Jitters :
          LET done == ok /\ clientIdOf(h.client) \notin external
              hh == [h EXCEPT !.log = Log("create", done)]
          IN  /\ Charged(ok)
              /\ Continues(IF done THEN [hh EXCEPT !.pc = "rotate"]
                           ELSE Catch(hh, jitter))
              /\ external' = IF done THEN external \cup {clientIdOf(h.client)}
                             ELSE external
    /\ UNCHANGED <<render, pending, lastGenByUid, cr, secrets, sideEffects>>

(* A rotated secret makes every stored copy of the old one stale *)
Rotated(id) ==
    [n \in DOMAIN secrets |->
        IF secrets[n].clientId = id THEN [secrets[n] EXCEPT !.current = FALSE]
        ELSE secrets[n]]

RotateSwallowed ==
    /\ h.pc = "rotate"
    /\ \E ok \in Results :
          LET done == ok /\ clientIdOf(h.client) \in external
          IN  /\ Charged(ok)
              /\ Continues([h EXCEPT !.pc = "client_addCondition",
                                     !.log = Log("rotate", done)])
              /\ secrets' = IF done THEN Rotated(clientIdOf(h.client)) ELSE secrets
    /\ UNCHANGED <<render, pending, lastGenByUid, cr, external, sideEffects>>

Rotate ==
    /\ h.pc = "rotate"
    /\ \E ok \in Results, jitter \in Jitters :
          LET done == ok /\ clientIdOf(h.client) \in external
              hh == [h EXCEPT !.log = Log("rotate", done)]
          IN  /\ Charged(ok)
              /\ Continues(IF done THEN [hh EXCEPT !.pc = "client_addCondition"]
                           ELSE Catch(hh, jitter))
              /\ secrets' = IF done THEN Rotated(clientIdOf(h.client)) ELSE secrets
    /\ UNCHANGED <<render, pending, lastGenByUid, cr, external, sideEffects>>

(* addCondition inside the try block: a failed PatchStatus is thrown into  *)
(* the catch block.                                                        *)
TryAddCondition(condition, next) ==
    \E ok \in Results, jitter \in Jitters :
       LET body == [conditions |-> addConditionList(h.client, condition)]
           hh == [h EXCEPT !.client = addConditionClient(h.client, condition),
                           !.log = Log("addCondition", ok /\ cr.live)]
       IN  /\ Charged(ok)
           /\ IF ok /\ cr.live
              THEN /\ cr' = PatchStatus(cr, body)
                   /\ IF next = "return" THEN Ends("ready")
                      ELSE Continues([hh EXCEPT !.pc = next])
              ELSE /\ cr' = cr
                   /\ Continues(Catch(hh, jitter))

ClientAddCondition ==
    /\ h.pc = "client_addCondition"
    /\ TryAddCondition(IF h.exists
                       THEN createCondition("ClientUpdated", "True", "UpdateSucceeded")
                       ELSE createCondition("ClientCreated", "True", "CreateSucceeded"),
                       "upsertSecret")
    /\ UNCHANGED <<render, pending, lastGenByUid, external, secrets, sideEffects>>

UpsertSecretNotApplied ==
    /\ h.pc = "upsertSecret"
    /\ \E ok \in Results, jitter \in Jitters :
          LET hh == [h EXCEPT !.log = Log("upsertSecret", ok)]
          IN  /\ Charged(ok)
              /\ Continues(IF ok THEN [hh EXCEPT !.pc = "secret_addCondition"]
                           ELSE Catch(hh, jitter))
              /\ secrets' = secrets
    /\ UNCHANGED <<render, pending, lastGenByUid, cr, external, sideEffects>>

UpsertSecret ==
    /\ h.pc = "upsertSecret"
    /\ \E ok \in Results, jitter \in Jitters :
          LET hh == [h EXCEPT !.log = Log("upsertSecret", ok)]
              secret == [clientId |-> clientIdOf(h.client), current |-> TRUE,
                         owner |-> h.client.uid]
          IN  /\ Charged(ok)
              /\ Continues(IF ok THEN [hh EXCEPT !.pc = "secret_addCondition"]
                           ELSE Catch(hh, jitter))
              /\ secrets' = IF ok THEN (secretNameOf(h.client) :> secret) @@ secrets
                            ELSE secrets
    /\ UNCHANGED <<render, pending, lastGenByUid, cr, external, sideEffects>>

SecretAddCondition ==
    /\ h.pc = "secret_addCondition"
    /\ TryAddCondition(createCondition("SecretCreated", "True", "SecretReady"),
                       "ready_updateStatus")
    /\ UNCHANGED <<render, pending, lastGenByUid, external, secrets, sideEffects>>

ReadyUpdateStatus ==
    /\ h.pc = "ready_updateStatus"
    /\ \E ok \in Results :
          LET body == updateStatusBody(h.client,
                          [phase |-> "Ready",
                           clientId |-> clientIdOf(h.client),
                           secretName |-> secretNameOf(h.client),
                           retryAttempt |-> 0],
                          {"nextRetryTime"})
          IN  /\ Charged(ok)
              /\ cr' = StatusWritten(body, ok)
              /\ Continues([h EXCEPT !.pc = "ready_addCondition",
                                     !.log = Log("updateStatus", ok /\ cr.live)])
    /\ UNCHANGED <<render, pending, lastGenByUid, external, secrets, sideEffects>>

ReadyAddCondition ==
    /\ h.pc = "ready_addCondition"
    /\ TryAddCondition(createCondition("Ready", "True", "ReconcileSucceeded"),
                       "return")
    /\ UNCHANGED <<render, pending, lastGenByUid, external, secrets, sideEffects>>

(* reconcile: the catch block *)
FailUpdateStatus ==
    /\ h.pc = "fail_updateStatus"
    /\ \E ok \in Results :
          LET body == updateStatusBody(h.client,
                          [phase |-> "Failed",
                           retryAttempt |-> h.retryAttempt,
                           nextRetryTime |-> h.nextRetryTime],
                          {})
          IN  /\ Charged(ok)
              /\ cr' = StatusWritten(body, ok)
              /\ Continues([h EXCEPT !.pc = "fail_addCondition",
                                     !.log = Log("updateStatus", ok /\ cr.live)])
    /\ UNCHANGED <<render, pending, lastGenByUid, external, secrets, sideEffects>>

(* addCondition outside a try block: a failed PatchStatus leaves the       *)
(* callback as an exception.                                               *)
FinalAddCondition(condition, how) ==
    \E ok \in Results :
       LET body == [conditions |-> addConditionList(h.client, condition)]
       IN  /\ Charged(ok)
           /\ IF ok /\ cr.live
              THEN /\ cr' = PatchStatus(cr, body)
                   /\ Ends(how)
              ELSE /\ cr' = cr
                   /\ Ends("threw")

FailAddCondition ==
    /\ h.pc = "fail_addCondition"
    /\ FinalAddCondition(createCondition("Ready", "False", "ReconcileFailed"),
                         "failed")
    /\ UNCHANGED <<render, pending, lastGenByUid, external, secrets, sideEffects>>

(* reconcile: the max-retry gate *)
MaxAddCondition ==
    /\ h.pc = "max_addCondition"
    /\ FinalAddCondition(createCondition("Ready", "False", "MaxRetriesExceeded"),
                         "gaveUp")
    /\ UNCHANGED <<render, pending, lastGenByUid, external, secrets, sideEffects>>

----------------------------------------------------------------------------
(* handleDeletion, one step per awaited call *)

DelUpdateStatus ==
    /\ h.pc = "del_updateStatus"
    /\ \E ok \in Results :
          LET body == updateStatusBody(h.client, [phase |-> "Removing"], {})
          IN  /\ Charged(ok)
              /\ cr' = StatusWritten(body, ok)
              /\ Continues([h EXCEPT !.pc = "del_clientExists",
                                     !.log = Log("updateStatus", ok /\ cr.live)])
    /\ UNCHANGED <<render, pending, lastGenByUid, external, secrets, sideEffects>>

DelClientExists ==
    /\ h.pc = "del_clientExists"
    /\ \E ok \in Results :
          LET exists == ok /\ deletionClientId(h.client) \in external
          IN  /\ Charged(ok)
              /\ Continues([h EXCEPT !.pc = IF exists THEN "del_delete"
                                            ELSE "del_deleteSecret",
                                     !.exists = exists,
                                     !.log = Log("clientExists", exists)])
    /\ UNCHANGED <<render, pending, lastGenByUid, cr, external, secrets, sideEffects>>

(* A rejected deleteApiOidcClients is thrown into the catch block of       *)
(* handleDeletion.                                                         *)
afterDeleteSwallowed(done) == "del_deleteSecret"

afterDelete(done) == IF done THEN "del_deleteSecret" ELSE "del_fail_updateStatus"

DelDelete ==
    /\ h.pc = "del_delete"
    /\ \E ok \in Results :
          LET done == ok /\ deletionClientId(h.client) \in external
          IN  /\ Charged(ok)
              /\ Continues([h EXCEPT !.pc = afterDelete(done),
                                     !.log = Log("delete", done)])
              /\ external' = IF done THEN external \ {deletionClientId(h.client)}
                             ELSE external
    /\ UNCHANGED <<render, pending, lastGenByUid, cr, secrets, sideEffects>>

(* deleteSecret: a 404 is not an error; removeFinalizer follows without an *)
(* await when the snapshot carries no finalizer.                           *)
DelDeleteSecret ==
    /\ h.pc = "del_deleteSecret"
    /\ \E ok \in Results :
          LET hh == [h EXCEPT !.log = Log("deleteSecret", ok)]
          IN  /\ Charged(ok)
              /\ IF ~ok
                 THEN Continues([hh EXCEPT !.pc = "del_fail_updateStatus"])
                 ELSE IF FINALIZER \in h.client.finalizers
                      THEN Continues([hh EXCEPT !.pc = "del_removeFinalizer"])
                      ELSE Ends("deleted")
              /\ secrets' = IF ok
                            THEN Without(secrets, {deletionSecretName(h.client)})
                            ELSE secrets
    /\ UNCHANGED <<render, pending, lastGenByUid, cr, external, sideEffects>>

(* The storage layer removes an object that has a deletion timestamp and   *)
(* no finalizer left.                                                      *)
Finalized(object) ==
    IF object.deletionTimestamp /\ object.finalizers = {}
    THEN [object EXCEPT !.live = FALSE]
    ELSE object

DelRemoveFinalizer ==
    /\ h.pc = "del_removeFinalizer"
    /\ \E ok \in Results :
          /\ Charged(ok)
          /\ IF ok /\ cr.live
             THEN /\ cr' = Finalized([cr EXCEPT !.finalizers =
                                          h.client.finalizers \ {FINALIZER}])
                  /\ Ends("deleted")
             ELSE /\ cr' = cr
                  /\ Continues([h EXCEPT !.pc = "del_fail_updateStatus",
                                         !.log = Log("removeFinalizer", FALSE)])
    /\ UNCHANGED <<render, pending, lastGenByUid, external, secrets, sideEffects>>

DelFailUpdateStatus ==
    /\ h.pc = "del_fail_updateStatus"
    /\ \E ok \in Results :
          LET body == updateStatusBody(h.client, [phase |-> "RemovalFailed"], {})
          IN  /\ Charged(ok)
              /\ cr' = StatusWritten(body, ok)
              /\ Continues([h EXCEPT !.pc = "del_fail_addCondition",
                                     !.log = Log("updateStatus", ok /\ cr.live)])
    /\ UNCHANGED <<render, pending, lastGenByUid, external, secrets, sideEffects>>

DelFailAddCondition ==
    /\ h.pc = "del_fail_addCondition"
    /\ FinalAddCondition(createCondition("Ready", "False", "DeletionFailed"),
                         "removalFailed")
    /\ UNCHANGED <<render, pending, lastGenByUid, external, secrets, sideEffects>>

----------------------------------------------------------------------------
(* The environment *)

(* The users act between two invocations of the callback.                 *)
(* A user edits the spec: the storage layer bumps metadata.generation.     *)
SpecEdit ==
    /\ Returned
    /\ pending = NoEvent
    /\ cr.live
    /\ ~cr.deletionTimestamp
    /\ cr.generation < MaxGen
    /\ \E s \in Specs \ {cr.spec} :
          cr' = [cr EXCEPT !.spec = s, !.generation = @ + 1]
    /\ outcome' = "none"
    /\ UNCHANGED <<render, pending, lastGenByUid, external, secrets, h, faults, sideEffects>>

(* A user edits the spec while the callback is running: the event carries  *)
(* the object as it is at that moment and waits for the callback to return *)
SpecEditDuringCallback ==
    /\ ~Returned
    /\ pending = NoEvent
    /\ cr.live
    /\ ~cr.deletionTimestamp
    /\ cr.generation < MaxGen
    /\ \E s \in Specs \ {cr.spec} :
          cr' = [cr EXCEPT !.spec = s, !.generation = @ + 1]
    /\ pending' = SnapshotOf(cr')
    /\ UNCHANGED <<render, lastGenByUid, external, secrets, h, outcome, faults,
                   sideEffects>>

(* A user deletes the resource: the storage layer sets the deletion        *)
(* timestamp, and removes the object at once when it has no finalizer.     *)
RequestDelete ==
    /\ Returned
    /\ pending = NoEvent
    /\ cr.live
    /\ ~cr.deletionTimestamp
    /\ cr' = Finalized([cr EXCEPT !.deletionTimestamp = TRUE])
    /\ outcome' = "none"
    /\ UNCHANGED <<render, pending, lastGenByUid, external, secrets, h, faults, sideEffects>>

(* Time passes: maxDelayMs elapse, which is enough for every retry time    *)
(* that was pending to be reached.                                         *)
Elapsed(t) == IF t - maxDelayMs > now THEN t - maxDelayMs ELSE now

ElapsedStatus(status) ==
    IF "nextRetryTime" \in DOMAIN status
    THEN [status EXCEPT !.nextRetryTime = Elapsed(@)]
    ELSE status

Tick ==
    /\ Returned
    /\ pending = NoEvent
    /\ cr' = [cr EXCEPT !.status = ElapsedStatus(@)]
    /\ outcome' = "none"
    /\ UNCHANGED <<render, pending, lastGenByUid, external, secrets, h, faults, sideEffects>>

(* The process is restarted: the module is loaded again and the Map is    *)
(* empty.                                                                  *)
Restart ==
    /\ Returned
    /\ lastGenByUid' = Empty
    /\ sideEffects' = Empty
    /\ outcome' = "none"
    /\ pending' = NoEvent
    /\ UNCHANGED <<render, cr, external, secrets, h, faults>>

(* The process dies while the callback is suspended in a call: a failure   *)
(* the environment injects.  The callback is never resumed.                *)
Crash ==
    /\ ~Returned
    /\ faults < MaxFaults
    /\ faults' = faults + 1
    /\ lastGenByUid' = Empty
    /\ h' = Idle
    /\ sideEffects' = Empty
    /\ outcome' = "none"
    /\ pending' = NoEvent
    /\ UNCHANGED <<render, cr, external, secrets>>

----------------------------------------------------------------------------

Next ==
    \/ WatchIgnored
    \/ WatchDeletion
    \/ WatchAlreadyReconciled
    \/ WatchBackoff
    \/ WatchMaxRetries
    \/ WatchBeginAttempt
    \/ AddFinalizer
    \/ BeginUpdateStatus
    \/ BeginAddCondition
    \/ ClientExists
    \/ Update
    \/ Create
    \/ Rotate
    \/ ClientAddCondition
    \/ UpsertSecret
    \/ SecretAddCondition
    \/ ReadyUpdateStatus
    \/ ReadyAddCondition
    \/ FailUpdateStatus
    \/ FailAddCondition
    \/ MaxAddCondition
    \/ DelUpdateStatus
    \/ DelClientExists
    \/ DelDelete
    \/ DelDeleteSecret
    \/ DelRemoveFinalizer
    \/ DelFailUpdateStatus
    \/ DelFailAddCondition
    \/ SpecEdit
    \/ SpecEditDuringCallback
    \/ RequestDelete
    \/ Tick
    \/ Restart
    \/ Crash

Spec == Init /\ [][Next]_vars

TypeOK ==
    /\ h.pc \in {"idle", "addFinalizer", "begin_updateStatus",
                 "begin_addCondition", "clientExists", "update", "create",
                 "rotate", "client_addCondition", "upsertSecret",
                 "secret_addCondition", "ready_updateStatus",
                 "ready_addCondition", "fail_updateStatus", "fail_addCondition",
                 "max_addCondition", "del_updateStatus", "del_clientExists",
                 "del_delete", "del_deleteSecret", "del_removeFinalizer",
                 "del_fail_updateStatus", "del_fail_addCondition"}
    /\ cr.generation \in 1..MaxGen
    /\ cr.finalizers \subseteq {FINALIZER}
    /\ external \subseteq {NAME, "custom-id"}
    /\ faults \in 0..MaxFaults

----------------------------------------------------------------------------
(* The rendering of one value of spec.secretTemplate.data by upsertSecret  *)

RenderInit ==
    /\ lastGenByUid = Empty
    /\ cr = [live |-> TRUE, generation |-> 1, deletionTimestamp |-> FALSE,
             finalizers |-> {}, spec |-> Empty, status |-> Empty]
    /\ external = {}
    /\ secrets = Empty
    /\ h = Idle
    /\ outcome = "none"
    /\ faults = 0
    /\ sideEffects = Empty
    /\ pending = NoEvent
    /\ \E template \in Templates, clientName \in ClientNames :
          render = [template |-> template,
                    context |-> TemplateContext(clientName),
                    rendered |-> NotRendered]

(* stringData[key] = renderTemplate(value, context) *)
Render ==
    /\ render.rendered = NotRendered
    /\ render' = [render EXCEPT
                     !.rendered = renderTemplate(render.template, render.context)]
    /\ UNCHANGED <<lastGenByUid, cr, external, secrets, h, outcome, faults,
                   sideEffects, pending>>

RenderNext == Render

RenderSpec == RenderInit /\ [][RenderNext]_vars

----------------------------------------------------------------------------
(* Properties *)

Phase == Get(cr.status, "phase", "")

RetryAttempt == Get(cr.status, "retryAttempt", 0)

ObservedGeneration == Get(cr.status, "observedGeneration", 0)

Conditions == Get(cr.status, "conditions", <<>>)

HasCondition(type, status, reason) ==
    \E i \in DOMAIN Conditions :
        Conditions[i] = [type |-> type, status |-> status, reason |-> reason]

RetryTimeReached ==
    /\ "nextRetryTime" \in DOMAIN cr.status
    /\ cr.status.nextRetryTime <= now

(* What the callback decides on the delivery of an event *)
DeliveryOutcomes ==
    {"ignored", "satisfied", "backoff", "maxRetries", "started", "deleting"}

(* An upsert event has just been delivered *)
UpsertDelivered == outcome \in DeliveryOutcomes /\ ~cr.deletionTimestamp

UpsertPcs ==
    {"addFinalizer", "begin_updateStatus", "begin_addCondition", "clientExists",
     "update", "create", "rotate", "client_addCondition", "upsertSecret",
     "secret_addCondition", "ready_updateStatus", "ready_addCondition",
     "fail_updateStatus", "fail_addCondition"}

(* The calls to PocketID and to the Secret API the invocation has made *)
IsEffect(entry) == entry.op \in {"clientExists", "delete", "deleteSecret",
                                 "update", "create", "rotate", "upsertSecret"}

Effects(log) == SelectSeq(log, IsEffect)

(* C1: after a failed attempt (phase Failed, retryAttempt < 10), an upsert  *)
(* event of the same generation delivered at or after nextRetryTime starts *)
(* a new attempt.                                                          *)
C1_RetriedAfterBackoff ==
    ( /\ UpsertDelivered
      /\ Phase = "Failed"
      /\ RetryAttempt < maxRetries
      /\ RetryTimeReached
      /\ ObservedGeneration = cr.generation )
    => outcome = "started"

C3_NewGenerationReenters ==
    ( /\ UpsertDelivered
      /\ RetryAttempt >= maxRetries
      /\ ObservedGeneration # cr.generation )
    => outcome = "started"

(* C4: with retryAttempt = 10, a further upsert event of the same          *)
(* generation (delivered once the backoff has elapsed) gets the            *)
(* MaxRetriesExceeded condition recorded, and no call to PocketID is made. *)
C4_MaxRetriesTerminal ==
    ( /\ UpsertDelivered
      /\ RetryAttempt = maxRetries
      /\ Phase # "Ready"
      /\ RetryTimeReached
      /\ ObservedGeneration = cr.generation )
    => outcome = "maxRetries"

(* C5: when the reconciler has released the finalizer, no OIDC client that *)
(* it created for the resource exists in PocketID.                         *)
C5_ReleasedOnlyWhenGone == outcome = "deleted" => external = {}

(* C6: when the reconciler has released the finalizer, every secret the    *)
(* upsert sequence applied for the resource has been deleted.              *)
C6_SecretDeletedOnRelease == outcome = "deleted" => DOMAIN secrets = {}

DeletionFailureEnds ==
    /\ h.pc = "del_fail_addCondition"
    /\ outcome' \in {"removalFailed", "threw"}
    /\ \E i \in DOMAIN h.log :
          h.log[i] \in { [op |-> "delete", ok |-> FALSE],
                         [op |-> "deleteSecret", ok |-> FALSE] }

(* C8 as claimed: a failed delete leaves the finalizer present, phase      *)
(* RemovalFailed and a Ready=False/DeletionFailed condition.               *)
C8_DeletionFailureRecorded ==
    [][ DeletionFailureEnds =>
           /\ FINALIZER \in cr'.finalizers
           /\ Get(cr'.status, "phase", "") = "RemovalFailed"
           /\ \E i \in DOMAIN Get(cr'.status, "conditions", <<>>) :
                 cr'.status.conditions[i] =
                     createCondition("Ready", "False", "DeletionFailed") ]_vars

(* C8 amended: a failed delete leaves the finalizer present; the phase is  *)
(* RemovalFailed if the status write of the phase succeeded, and the       *)
(* Ready=False/DeletionFailed condition is recorded if the status write of *)
(* the condition succeeded.                                                *)
C8_DeletionFailureRecordedIfWritten ==
    [][ DeletionFailureEnds =>
           /\ FINALIZER \in cr'.finalizers
           /\ h.log[Len(h.log)].ok =>
                 Get(cr'.status, "phase", "") = "RemovalFailed"
           /\ outcome' = "removalFailed" =>
                 \E i \in DOMAIN Get(cr'.status, "conditions", <<>>) :
                    cr'.status.conditions[i] =
                        createCondition("Ready", "False", "DeletionFailed") ]_vars

C8_Witness ==
    /\ outcome = "removalFailed"
    /\ Phase = "RemovalFailed"
    /\ HasCondition("Ready", "False", "DeletionFailed")
    /\ FINALIZER \in cr.finalizers
    /\ external # {}

(* C9: an upsert event for a resource whose status has phase Ready and the *)
(* generation of the event is dropped: no call is begun, and the resource, *)
(* PocketID and the secrets are unchanged.                                 *)
C9_Idempotent ==
    [][ ( /\ outcome' \in DeliveryOutcomes
          /\ ~cr.deletionTimestamp
          /\ Phase = "Ready"
          /\ ObservedGeneration = cr.generation )
        => ( /\ outcome' \in {"ignored", "satisfied"}
             /\ h' = Idle
             /\ UNCHANGED <<cr, external, secrets>> ) ]_vars

C9_Witness ==
    /\ outcome = "satisfied"
    /\ Phase = "Ready"
    /\ ObservedGeneration = cr.generation
    /\ external # {}
    /\ h = Idle

(* C10: an upsert attempt never ends otherwise than in success or with the *)
(* failure recorded: phase Failed, retryAttempt one more than before,      *)
(* nextRetryTime in the future, Ready=False/ReconcileFailed.               *)
C10_FailuresRecorded ==
    [][ (h.pc \in UpsertPcs /\ h'.pc = "idle" /\ outcome' # "none") =>
           \/ outcome' = "ready"
           \/ /\ Get(cr'.status, "phase", "") = "Failed"
              /\ Get(cr'.status, "retryAttempt", 0) = currentRetryOf(h.client) + 1
              /\ "nextRetryTime" \in DOMAIN cr'.status
              /\ cr'.status.nextRetryTime > now
              /\ \E i \in DOMAIN Get(cr'.status, "conditions", <<>>) :
                    cr'.status.conditions[i] =
                        createCondition("Ready", "False", "ReconcileFailed") ]_vars

(* The positions at which the call in flight is a write of the status *)
StatusWritePcs ==
    {"begin_updateStatus", "begin_addCondition", "client_addCondition",
     "secret_addCondition", "ready_updateStatus", "ready_addCondition",
     "fail_updateStatus", "fail_addCondition", "max_addCondition",
     "del_updateStatus", "del_fail_updateStatus", "del_fail_addCondition"}

(* The call in flight was a status write and it failed (the process did    *)
(* not die: the callback went on, returned or threw).                      *)
StatusWriteFailed ==
    /\ h.pc \in StatusWritePcs
    /\ faults' = faults + 1
    /\ ~(h' = Idle /\ outcome' = "none")

(* C11: a failed status write, of a phase or of a condition, is swallowed: *)
(* no exception leaves the invocation and the catch block of the upsert    *)
(* path (phase Failed, retryAttempt + 1) is not entered because of it.     *)
C11_StatusWriteFailureSwallowed ==
    [][ StatusWriteFailed =>
           /\ outcome' # "threw"
           /\ h'.pc # "fail_updateStatus" ]_vars

(* The position reached from each position of the update branch when the   *)
(* call in flight succeeds.                                                *)
UpdateBranch ==
    [pc \in {"update", "rotate", "client_addCondition", "upsertSecret",
             "secret_addCondition", "ready_updateStatus", "ready_addCondition"}
     |-> CASE pc = "update" -> "rotate"
           [] pc = "rotate" -> "client_addCondition"
           [] pc = "client_addCondition" -> "upsertSecret"
           [] pc = "upsertSecret" -> "secret_addCondition"
           [] pc = "secret_addCondition" -> "ready_updateStatus"
           [] pc = "ready_updateStatus" -> "ready_addCondition"
           [] pc = "ready_addCondition" -> "idle"]

AllOk(log) == \A i \in DOMAIN log : log[i].ok

SecretApplied(client, store) ==
    /\ secretNameOf(client) \in DOMAIN store
    /\ store[secretNameOf(client)].clientId = clientIdOf(client)
    /\ store[secretNameOf(client)].current

(* C12: an attempt that finds the external object a former attempt left    *)
(* (created, secret not materialized) takes the update branch, never the   *)
(* create call, goes one step forward with every call that succeeds, and,  *)
(* with all its calls succeeding, ends in phase Ready with the secret      *)
(* applied.                                                                *)
C12_SelfHealing ==
    [][ /\ ( /\ h.pc = "clientExists"
             /\ clientIdOf(h.client) \in external
             /\ faults' = faults
             /\ h' # h )
           => h'.pc = "update"
        /\ ( /\ h.pc \in DOMAIN UpdateBranch
             /\ h.exists
             /\ faults' = faults
             /\ h' # h )
           => ( /\ h'.pc = UpdateBranch[h.pc]
                /\ external' = external )
        /\ ( /\ h.pc = "ready_addCondition"
             /\ h.exists
             /\ AllOk(h.log)
             /\ faults' = faults
             /\ h' # h )
           => ( /\ outcome' = "ready"
                /\ Get(cr'.status, "phase", "") = "Ready"
                /\ SecretApplied(h.client, secrets')
                /\ \A i \in DOMAIN h.log : h.log[i].op # "create" ) ]_vars

(* The first attempt of generation 1 created the external object and       *)
(* failed before the secret was applied; the next attempt has taken the    *)
(* update branch.                                                          *)
C12_Witness ==
    /\ h.pc = "rotate"
    /\ h.exists
    /\ AllOk(h.log)
    /\ h.client.generation = 1
    /\ "name" \in DOMAIN h.client.spec
    /\ Get(h.client.status, "phase", "") = "Failed"
    /\ Get(h.client.status, "retryAttempt", 0) = 1
    /\ clientIdOf(h.client) \in external
    /\ secrets = Empty

ConditionTypes ==
    {"Reconciling", "ClientCreated", "ClientUpdated", "SecretCreated", "Ready"}

(* The conditions of the list whose type is not the given one, in order *)
OtherTypes(conditions, type) ==
    LET Other(c) == c.type # type
    IN  SelectSeq(conditions, Other)

(* C13: a write that changes the persisted status.conditions changes the   *)
(* entry of one type only (replaced in place or appended): the conditions  *)
(* of every other type stay present, unchanged and in the same order.      *)
C13_OtherConditionsKept ==
    [][ Get(cr'.status, "conditions", <<>>) # Conditions =>
           \E type \in ConditionTypes :
              OtherTypes(Get(cr'.status, "conditions", <<>>), type)
                 = OtherTypes(Conditions, type) ]_vars

(* C14: the persisted status.conditions holds at most one condition per    *)
(* type.                                                                   *)
C14_OneConditionPerType ==
    \A i, j \in DOMAIN Conditions :
       Conditions[i].type = Conditions[j].type => i = j

(* A list of several types, one of which (Reconciling) has been replaced   *)
(* in place by a later attempt.                                            *)
C14_Witness ==
    /\ Len(Conditions) >= 3
    /\ Conditions[1] = createCondition("Reconciling", "True", "RetryStarted")
    /\ HasCondition("Ready", "True", "ReconcileSucceeded")

(* The catch block has computed the delay of retry attempt n:              *)
(* nextRetryTime = now + delay(n), n = the retryAttempt it is to record.   *)
DelayComputed == h.pc = "fail_updateStatus" /\ h.retryAttempt \in 1..maxRetries

Delay == h.nextRetryTime - now

(* C15, as stated: for every retry attempt n in 1..10,                     *)
(* base*2^(n-1) <= delay(n) < base*2^(n-1) + 1s and delay(n) <= 300s.      *)
C15_DelayBounds ==
    DelayComputed =>
       /\ baseDelayMs * Pow2(h.retryAttempt - 1) <= Delay
       /\ Delay < baseDelayMs * Pow2(h.retryAttempt - 1) + jitterRangeMs
       /\ Delay <= maxDelayMs

(* C15, amended: for every retry attempt n in 1..10,                       *)
(* min(base*2^(n-1), 300s) <= delay(n) < base*2^(n-1) + 1s and             *)
(* delay(n) <= 300s; from n = 7 on the delay is the cap of 300s itself.    *)
C15_DelayBoundsCapped ==
    DelayComputed =>
       /\ Min(baseDelayMs * Pow2(h.retryAttempt - 1), maxDelayMs) <= Delay
       /\ Delay < baseDelayMs * Pow2(h.retryAttempt - 1) + jitterRangeMs
       /\ Delay <= maxDelayMs
       /\ (h.retryAttempt >= 7 => Delay = maxDelayMs)

(* The delay of the 7th retry attempt: 5s * 2^6 = 320s is above the cap *)
C15_Witness ==
    /\ DelayComputed
    /\ h.retryAttempt = 7
    /\ Delay = maxDelayMs

(* An awaited call resolves or rejects: the callback is resumed, and the    *)
(* environment goes on delivering events.                                  *)
FairSpec == Spec /\ WF_vars(Next)

(* The first upsert event of a newly created resource with spec.name set   *)
(* has begun an attempt, and no call has failed.                           *)
HappyStart ==
    /\ outcome = "started"
    /\ h.client.status = Empty
    /\ h.client.finalizers = {}
    /\ "name" \in DOMAIN h.client.spec
    /\ faults = 0

HappyEnd ==
    /\ outcome = "ready"
    /\ FINALIZER \in cr.finalizers
    /\ clientIdOf(Snapshot) \in external
    /\ SecretApplied(Snapshot, secrets)
    /\ secrets[secretNameOf(Snapshot)].owner = UID
    /\ {"phase", "retryAttempt", "clientId", "secretName", "observedGeneration"}
          \subseteq DOMAIN cr.status
    /\ cr.status.phase = "Ready"
    /\ cr.status.retryAttempt = 0
    /\ cr.status.clientId = clientIdOf(Snapshot)
    /\ cr.status.secretName = secretNameOf(Snapshot)
    /\ cr.status.observedGeneration = cr.generation

(* C16: the first upsert event of a new resource with spec.name set leads, *)
(* unless a call fails or the spec is edited while the attempt runs, to    *)
(* the finalizer present, the client existing in PocketID, the secret      *)
(* applied and owned by the resource, phase Ready, retryAttempt 0,         *)
(* clientId and secretName recorded and observedGeneration equal to the    *)
(* generation.                                                             *)
C16_HappyPath == HappyStart ~> (HappyEnd \/ faults > 0 \/ pending # NoEvent)

C16_Witness == HappyEnd /\ faults = 0 /\ cr.generation = 1

(* C17: once a failed deletion has set phase RemovalFailed, no event makes *)
(* the reconciler call the delete of the external object or of the secret  *)
(* again: no such call is in flight for an event that carried phase        *)
(* RemovalFailed.                                                          *)
C17_NoDeletionRetry ==
    h.pc \in {"del_delete", "del_deleteSecret"} =>
       Get(h.client.status, "phase", "") # "RemovalFailed"

(* C18: a resource in phase Pending, Retrying or Ready carries no          *)
(* status.nextRetryTime: the status write that sets the phase clears it.   *)
C18_NextRetryTimeCleared ==
    Phase \in {"Pending", "Retrying", "Ready"} =>
       "nextRetryTime" \notin DOMAIN cr.status

(* The delivered event carries a nextRetryTime that is still in the future *)
RetryTimeAhead ==
    /\ "nextRetryTime" \in DOMAIN cr.status
    /\ cr.status.nextRetryTime > now

(* The outcomes of an upsert event that has reached the backoff gate *)
PastAlreadyReconciled == {"backoff", "maxRetries", "started"}

(* C19: an upsert event that reaches the backoff gate with phase other     *)
(* than Ready is dropped there exactly when nextRetryTime is set and in    *)
(* the future and observedGeneration is the generation of the event; the   *)
(* drop writes nothing (finalizer, status, PocketID, secrets) and starts   *)
(* no call. With a changed generation the event passes the gate even if    *)
(* nextRetryTime is in the future.                                         *)
C19_BackoffGate ==
    [][ ( /\ outcome' \in PastAlreadyReconciled
          /\ ~cr.deletionTimestamp
          /\ Phase # "Ready" )
        => /\ outcome' = "backoff" <=>
                 (RetryTimeAhead /\ ObservedGeneration = cr.generation)
           /\ outcome' = "backoff" =>
                 (h' = Idle /\ UNCHANGED <<cr, external, secrets>>) ]_vars

(* An attempt begun for a new generation while nextRetryTime is ahead *)
C19_Witness ==
    /\ outcome = "started"
    /\ Phase = "Failed"
    /\ RetryTimeAhead
    /\ ObservedGeneration # cr.generation
    /\ h.client = Snapshot

(* The field a placeholder text names, "" when it is not recognized *)
FieldOf(token) ==
    IF \E i \in DOMAIN Fields : token \in Placeholders(Fields[i])
    THEN Fields[CHOOSE i \in DOMAIN Fields : token \in Placeholders(Fields[i])]
    ELSE ""

RECURSIVE Substituted(_, _)
(* The template with every recognized placeholder replaced by its context  *)
(* value, taken literally, everything else unchanged.                      *)
Substituted(template, ctx) ==
    IF template = <<>> THEN <<>>
    ELSE (IF FieldOf(Head(template)) # ""
          THEN ctx[FieldOf(Head(template))]
          ELSE <<Head(template)>>)
         \o Substituted(Tail(template), ctx)

(* C20: the rendered string is the template with each recognized           *)
(* placeholder replaced by its context value and unrecognized              *)
(* placeholders unchanged; placeholder text inside a context value is not  *)
(* substituted.                                                            *)
C20_RenderedOnce ==
    render.rendered # NotRendered =>
       render.rendered = Substituted(render.template, render.context)

DeletionPcs ==
    {"del_updateStatus", "del_clientExists", "del_delete", "del_deleteSecret",
     "del_removeFinalizer", "del_fail_updateStatus", "del_fail_addCondition"}

(* The process died while the callback was suspended in a call *)
ProcessDied == h.pc # "idle" /\ h' = Idle /\ outcome' = "none"

(* C21: an event with a deletion timestamp enters handleDeletion whatever  *)
(* the ledger and the phase hold; the invocation leaves the ledger as it   *)
(* is, stays on the deletion path, makes no create, update, rotate or      *)
(* secret-apply call and does not add the finalizer.                       *)
C21_DeletionBypassesGates ==
    [][ /\ ( /\ outcome' \in DeliveryOutcomes
             /\ h.pc = "idle"
             /\ cr.deletionTimestamp )
           => ( /\ outcome' = "deleting"
                /\ h'.pc = "del_updateStatus"
                /\ lastGenByUid' = lastGenByUid )
        /\ ( /\ h.pc # "idle"
             /\ h.client.deletionTimestamp
             /\ ~ProcessDied )
           => ( /\ h.pc \in DeletionPcs
                /\ h'.pc \in DeletionPcs \cup {"idle"}
                /\ lastGenByUid' = lastGenByUid
                /\ \A i \in DOMAIN h'.log :
                      h'.log[i].op \notin {"create", "update", "rotate",
                                           "upsertSecret", "addFinalizer"}
                /\ cr'.finalizers \subseteq cr.finalizers
                /\ external' \subseteq external
                /\ DOMAIN secrets' \subseteq DOMAIN secrets ) ]_vars

(* A deletion event has entered handleDeletion although the ledger holds   *)
(* the generation of the resource and the phase was Ready.                 *)
C21_Witness ==
    /\ h.pc = "del_deleteSecret"
    /\ Get(lastGenByUid, UID, 0) = h.client.generation
    /\ Get(h.client.status, "phase", "") = "Ready"
    /\ Get(h.client.status, "observedGeneration", 0) = h.client.generation

IsUpsertCall(entry) == entry.op \in {"clientExists", "create", "update",
                                     "rotate", "upsertSecret"}

(* The calls of the upsert sequence made so far by the invocation *)
UpsertCalls(log) == SelectSeq(log, IsUpsertCall)

(* The order the upsert sequence allows: the existence check, then update  *)
(* if it answered true and create if not, then rotate after a successful   *)
(* create or update, then the secret apply after a successful rotate.      *)
InUpsertOrder(calls) ==
    /\ Len(calls) <= 4
    /\ Len(calls) >= 1 => calls[1].op = "clientExists"
    /\ Len(calls) >= 2 =>
          calls[2].op = IF calls[1].ok THEN "update" ELSE "create"
    /\ Len(calls) >= 3 => calls[2].ok /\ calls[3].op = "rotate"
    /\ Len(calls) >= 4 => calls[3].ok /\ calls[4].op = "upsertSecret"

(* What the invocation does next, given the calls it has made *)
CatchPcs == {"fail_updateStatus", "fail_addCondition"}

NextUpsertCall(calls, pc) ==
    /\ Len(calls) = 1 => pc = IF calls[1].ok THEN "update" ELSE "create"
    /\ Len(calls) = 2 => IF calls[2].ok THEN pc = "rotate" ELSE pc \in CatchPcs
    /\ (Len(calls) = 3 /\ ~calls[3].ok) => pc \in CatchPcs

(* C22: in an upsert attempt the existence check chooses update (true) or  *)
(* create (false) and exactly that one is issued; a successful one is      *)
(* followed by rotate; the secret is applied only after a successful       *)
(* rotate and stores the secret that rotate returned; a failing create,    *)
(* update or rotate sends the attempt to the catch block, with no apply.   *)
C22_UpsertSequence ==
    /\ [](h.pc # "idle" /\ ~h.client.deletionTimestamp
            => /\ InUpsertOrder(UpsertCalls(h.log))
               /\ NextUpsertCall(UpsertCalls(h.log), h.pc))
    /\ [][ (h.pc = "upsertSecret" /\ h'.pc = "secret_addCondition")
             => LET name == secretNameOf(h.client)
                IN  /\ name \in DOMAIN secrets'
                    /\ secrets'[name].clientId = clientIdOf(h.client)
                    /\ secrets'[name].current ]_vars

(* The whole sequence on the update branch: exists, update, rotate, apply *)
C22_Witness ==
    /\ h.pc = "secret_addCondition"
    /\ h.exists
    /\ Len(UpsertCalls(h.log)) = 4
    /\ AllOk(UpsertCalls(h.log))

IsExternalMutation(entry) == entry.op \in {"create", "update", "rotate"}

(* The finalizer was on the event's object or the invocation added it *)
FinalizerEnsured ==
    \/ FINALIZER \in h.client.finalizers
    \/ \E i \in DOMAIN h.log : h.log[i].op = "addFinalizer" /\ h.log[i].ok

(* C23: an invocation that has issued a create, update or rotate call had  *)
(* the finalizer ensured first, and as long as the resource is in the      *)
(* cluster (its deletion has not completed) while an OIDC client exists in *)
(* PocketID, the resource carries the finalizer.                           *)
C23_FinalizerBeforeMutation ==
    /\ (h.pc \in {"create", "update", "rotate"}
          \/ \E i \in DOMAIN h.log : IsExternalMutation(h.log[i]))
       => FinalizerEnsured /\ (cr.live => FINALIZER \in cr.finalizers)
    /\ (external # {} /\ cr.live) => FINALIZER \in cr.finalizers

(* A client was just created by an invocation that had to add the          *)
(* finalizer itself.                                                       *)
C23_Witness ==
    /\ h.pc = "rotate"
    /\ FINALIZER \notin h.client.finalizers
    /\ clientIdOf(h.client) \in external
    /\ cr.live
    /\ FINALIZER \in cr.finalizers

(* C24: in the persisted status, phase Retrying goes with retryAttempt > 0 *)
(* and phase Pending with retryAttempt = 0 (an absent retryAttempt reads   *)
(* as 0, as reconcile reads it).                                           *)
C24_PhaseRetryConsistent ==
    /\ Phase = "Retrying" => RetryAttempt > 0
    /\ Phase = "Pending" => RetryAttempt = 0

RetryAttemptRange == RetryAttempt \in 0..maxRetries

(* The persisted retryAttempt grows only by the write of the catch block   *)
(* of an attempt that started below maxRetries, and then to one more than  *)
(* that attempt started with.                                              *)
RetryAttemptGrows ==
    Get(cr'.status, "retryAttempt", 0) > RetryAttempt
       => ( /\ h.pc = "fail_updateStatus"
            /\ currentRetryOf(h.client) < maxRetries
            /\ Get(cr'.status, "retryAttempt", 0) = currentRetryOf(h.client) + 1 )

RetryAttemptReset == RetryAttempt > 0 /\ Get(cr'.status, "retryAttempt", 0) = 0

(* C25: the persisted retryAttempt stays within 0..maxRetries, grows only  *)
(* by a failed attempt that started below maxRetries, and goes back to 0   *)
(* only by the Ready write of a successful attempt.                        *)
C25_RetryAttemptBounded ==
    /\ []RetryAttemptRange
    /\ [][ /\ RetryAttemptGrows
           /\ RetryAttemptReset => h.pc = "ready_updateStatus" ]_vars

(* Phase Ready goes with retryAttempt 0, and when the observed generation  *)
(* is the generation of the resource, the OIDC client status.clientId      *)
(* exists in PocketID and the Secret status.secretName holds the secret of *)
(* the latest rotate call for that client.                                 *)
ReadyIsCurrent ==
    Phase = "Ready" =>
        /\ RetryAttempt = 0
        /\ ObservedGeneration = cr.generation =>
              /\ "clientId" \in DOMAIN cr.status
              /\ cr.status.clientId \in external
              /\ "secretName" \in DOMAIN cr.status
              /\ cr.status.secretName \in DOMAIN secrets
              /\ secrets[cr.status.secretName].clientId = cr.status.clientId
              /\ secrets[cr.status.secretName].current

(* C26 as stated: in every state of a resource that is in the cluster,     *)
(* persisted phase Ready means retryAttempt 0 and, at the observed         *)
(* generation, an existing OIDC client and a Secret with its latest secret *)
C26_ReadyIsCurrent == cr.live => ReadyIsCurrent

(* C26 amended: the same, for a resource without a deletion timestamp.     *)
(* handleDeletion deletes the OIDC client and the Secret whether or not    *)
(* its write of phase Removing was stored.                                 *)
C26_ReadyIsCurrentUnlessDeleting ==
    (cr.live /\ ~cr.deletionTimestamp) => ReadyIsCurrent

(* Ready at generation 2: the client was updated and its secret rotated    *)
(* and applied again.                                                      *)
C26_Witness ==
    /\ cr.live
    /\ ~cr.deletionTimestamp
    /\ Phase = "Ready"
    /\ cr.generation = 2
    /\ ObservedGeneration = cr.generation
    /\ cr.status.clientId \in external
    /\ secrets[cr.status.secretName].current

RemovalPhases == {"Removing", "RemovalFailed"}

(* C27: persisted phase Removing or RemovalFailed goes with a deletion     *)
(* timestamp on the resource, and these phases are stored only by the two  *)
(* status writes of handleDeletion, never by a write of the upsert path.   *)
C27_RemovalPhasesOnlyWhenDeleting ==
    /\ []((cr.live /\ Phase \in RemovalPhases) => cr.deletionTimestamp)
    /\ [][ ( /\ Get(cr'.status, "phase", "") \in RemovalPhases
             /\ Get(cr'.status, "phase", "") # Phase )
           => ( /\ h.pc \in {"del_updateStatus", "del_fail_updateStatus"}
                /\ h.client.deletionTimestamp
                /\ cr.deletionTimestamp ) ]_vars

(* A failed deletion has been recorded on a resource that is being deleted *)
C27_Witness ==
    /\ cr.live
    /\ Phase = "RemovalFailed"
    /\ cr.deletionTimestamp
    /\ h.pc = "del_fail_addCondition"

====
